---- MODULE Spec2Model ----
(***************************************************************************)
(* Model of src/main.py (epicam): the CameraApp window, its PySpin camera, *)
(* the preview (acquisition) thread and the shutdown handler.              *)
(*                                                                         *)
(* Two execution contexts are modelled: the GUI thread (constructor, the   *)
(* Qt slots, closeEvent) and the preview thread (start_preview).  A slot   *)
(* runs to completion on the GUI thread, so it is one action; closeEvent   *)
(* blocks in join() and is therefore split at its device calls.            *)
(*                                                                         *)
(* Python floats are modelled in fixed point: a float x is the integer     *)
(* x * Scale, so that int(...) (truncation) is not the identity.           *)
(***************************************************************************)
EXTENDS Integers, Sequences, FiniteSets, TLC

\* ---------------------------------------------------------------- bounds
\* Resolution of the fixed-point floats: 1/Scale is the smallest fraction.
Scale == 2
\* The preview thread issues at most MaxPulls frame pulls.
MaxPulls == 2
\* The user makes at most MaxIntents intents (slider, combo box, button).
MaxIntents == 2
\* The device deviates from the all-succeeds outcome in at most MaxFaults of
\* the calls the GUI thread makes (a node that is not writable, a call that
\* raises).
MaxFaults == 1

\* ------------------------------------------------------------ constants
DefaultMinExposure == 1000
DefaultMaxExposure == 100000
DefaultMinGain == 0
DefaultMaxGain == 47
InitialExposureSlider == 85000
InitialGainSlider == 32
StartupFramerate == 10

\* The entries of framerate_combo, in Hz.
Framerates == {10, 5, 1}

\* Values a user may drag the sliders to (Qt bounds them to the slider range).
ExposureRequests == {500, 250000}
GainRequests == {-5, 60}

\* ------------------------------------------------------ numeric helpers
Max(a, b) == IF a >= b THEN a ELSE b

\* A Python int as a float (fixed point).
ToFloat(i) == i * Scale

\* Python int(x) of a float: truncation toward zero.
PyInt(x) == IF x >= 0 THEN x \div Scale ELSE -((-x) \div Scale)

\* n / d rounded to the nearest integer, ties to even (n >= 0, d > 0):
\* the rounding of the format specification ".2f".
RoundDiv(n, d) ==
    LET q == n \div d
        r == n % d
    IN  IF 2 * r < d THEN q
        ELSE IF 2 * r > d THEN q + 1
        ELSE IF q % 2 = 0 THEN q ELSE q + 1

\* f"{actual_exposure/1000:.2f}": hundredths of a millisecond.
ExposureText(x) == IF x >= 0 THEN RoundDiv(x, 10 * Scale) ELSE -RoundDiv(-x, 10 * Scale)

\* f"{actual_gain:.2f}": hundredths of a dB.
GainText(x) == IF x >= 0 THEN RoundDiv(100 * x, Scale) ELSE -RoundDiv(-100 * x, Scale)

\* ---------------------------------------------------------- the device
\* A camera model: profile 1 reports whole-numbered ranges, profile 2
\* ranges with a fractional part (as sensors do: 47.99 dB, 99999.5 us),
\* profile 3 is a long-exposure sensor whose shortest exposure, 200 ms, lies
\* above the program's default ceiling.  Every reported range has min <= max.
Profiles == {1, 2, 3}

\* ExposureTime.GetMin() / GetMax(): the ceiling follows the frame period.
DevExposureMin(p, fr) ==
    CASE p = 1 -> ToFloat(1000)
      [] p = 2 -> ToFloat(1000) + 1
      [] p = 3 -> ToFloat(200000)
DevExposureMax(p, fr) ==
    CASE p = 1 -> ToFloat(1000000 \div fr)
      [] p = 2 -> ToFloat(1000000 \div fr) - 1
      [] p = 3 -> ToFloat(200000 + 1000000 \div fr)

\* Gain.GetMin() / GetMax().
DevGainMin(p) == ToFloat(0)
DevGainMax(p) == IF p = 2 THEN ToFloat(47) + 1 ELSE ToFloat(47)

\* --------------------------------------------------------------- state
VARIABLES
    app,            \* the CameraApp object: its attributes and widgets
    cam,            \* the camera (cam_list[0]) and its nodes
    sys,            \* cam_list / system handles
    gui,            \* position of the GUI thread
    th,             \* position of the preview thread
    image,          \* the image result held by the preview thread
    pulls,          \* GetNextImage calls issued
    completes,      \* pulls that returned a complete frame
    incompletes,    \* pulls that returned an incomplete frame
    unreleased,     \* image results obtained and not released
    published,      \* setPixmap calls made by the preview thread
    preview_errors, \* show_error calls made by the preview thread
    thread_starts,  \* preview_thread.start() calls
    clipboard,      \* what QApplication.clipboard() holds
    intent,         \* the last user intent and whether Qt delivered it
    intents,        \* user intents made so far
    faults,         \* device deviations met by the GUI thread so far
    trace,          \* device operations issued by the last GUI handler
    msgs,           \* show_error messages of the last GUI handler
    closeLog        \* the steps closeEvent has performed

vars == << app, cam, sys, gui, th, image, pulls, completes, incompletes,
           unreleased, published, preview_errors, thread_starts, clipboard,
           intent, intents, faults, trace, msgs, closeLog >>

threadVars == << th, image, pulls, completes, incompletes, unreleased,
                 published, preview_errors >>

\* --------------------------------------------- the handlers' work record
\* A handler is computed on a record w: the object, the device, the device
\* operations issued, the messages shown, the clipboard and whether an
\* exception is propagating out of the call.
World == [app |-> app, cam |-> cam, clip |-> clipboard, trace |-> << >>,
          msgs |-> << >>, exc |-> FALSE]

Op(op, node, val) == [op |-> op, node |-> node, val |-> val]

\* A call on the camera or on one of its nodes.
Issue(w, op, node, val) == [w EXCEPT !.trace = Append(@, Op(op, node, val))]

Raise(w) == [w EXCEPT !.exc = TRUE]

show_error(w, message) == [w EXCEPT !.msgs = Append(@, message)]

\* ------------------------------------------------------------ Qt slider
Bound(v, lo, hi) == IF v < lo THEN lo ELSE IF v > hi THEN hi ELSE v

\* QAbstractSlider::setRange: maximum = max(min, max), the value re-bounded.
SliderSetRange(s, mn, mx) ==
    [s EXCEPT !.min = mn, !.max = Max(mn, mx), !.value = Bound(@, mn, Max(mn, mx))]

\* QAbstractSlider::setValue: the value bounded to the range.
SliderSetValue(s, v) == [s EXCEPT !.value = Bound(v, s.min, s.max)]

NewSlider == [min |-> 0, max |-> 99, value |-> 0, enabled |-> TRUE]

Label(kind, v) == [kind |-> kind, v |-> v]

\* ------------------------------------------------------ range caching
\* What the device does in one refresh: the node is readable and both reads
\* succeed, the node is not available, or GetMin / GetMax raises.  GetNodeMap
\* raises when the camera is not initialised.
CacheOutcomes == {"ok", "unavailable", "min_raise", "max_raise"}

\* Mutant: a node that is not readable resets the cache to the defaults.
cache_exposure_range_Resets(w, o) ==
    IF ~w.app.has_camera THEN w
    ELSE
    LET w1 == Issue(w, "GetNodeMap", "", 0) IN
    IF w.cam.state # "open" THEN Raise(w1)
    ELSE
    LET w2 == Issue(w1, "IsReadable", "ExposureTime", 0) IN
    IF o = "unavailable"
    THEN [w2 EXCEPT !.app.min_exposure = ToFloat(DefaultMinExposure),
                    !.app.max_exposure = ToFloat(DefaultMaxExposure)]
    ELSE
    LET w3 == Issue(w2, "GetMin", "ExposureTime", 0) IN
    IF o = "min_raise" THEN Raise(w3)
    ELSE
    LET w4 == [w3 EXCEPT !.app.min_exposure =
                            DevExposureMin(w.cam.profile, w.cam.framerate)]
        w5 == Issue(w4, "GetMax", "ExposureTime", 0)
    IN
    IF o = "max_raise" THEN Raise(w5)
    ELSE [w5 EXCEPT !.app.max_exposure =
                        DevExposureMax(w.cam.profile, w.cam.framerate)]

cache_exposure_range(w, o) ==
    IF ~w.app.has_camera THEN w
    ELSE
    LET w1 == Issue(w, "GetNodeMap", "", 0) IN
    IF w.cam.state # "open" THEN Raise(w1)
    ELSE
    LET w2 == Issue(w1, "IsReadable", "ExposureTime", 0) IN
    IF o = "unavailable" THEN w2
    ELSE
    LET w3 == Issue(w2, "GetMin", "ExposureTime", 0) IN
    IF o = "min_raise" THEN Raise(w3)
    ELSE
    LET w4 == [w3 EXCEPT !.app.min_exposure =
                            DevExposureMin(w.cam.profile, w.cam.framerate)]
        w5 == Issue(w4, "GetMax", "ExposureTime", 0)
    IN
    IF o = "max_raise" THEN Raise(w5)
    ELSE [w5 EXCEPT !.app.max_exposure =
                        DevExposureMax(w.cam.profile, w.cam.framerate)]

cache_gain_range(w, o) ==
    IF ~w.app.has_camera THEN w
    ELSE
    LET w1 == Issue(w, "GetNodeMap", "", 0) IN
    IF w.cam.state # "open" THEN Raise(w1)
    ELSE
    LET w2 == Issue(w1, "IsReadable", "Gain", 0) IN
    IF o = "unavailable" THEN w2
    ELSE
    LET w3 == Issue(w2, "GetMin", "Gain", 0) IN
    IF o = "min_raise" THEN Raise(w3)
    ELSE
    LET w4 == [w3 EXCEPT !.app.min_gain = DevGainMin(w.cam.profile)]
        w5 == Issue(w4, "GetMax", "Gain", 0)
    IN
    IF o = "max_raise" THEN Raise(w5)
    ELSE [w5 EXCEPT !.app.max_gain = DevGainMax(w.cam.profile)]

\* ------------------------------------------------- parameter handlers
\* What the device does in one apply: everything succeeds, the auto node is
\* not writable (the auto step is skipped), the auto write raises, the value
\* node is not writable, the value write raises, or the read-back raises.
ApplyOutcomes == {"ok", "auto_skip", "auto_raise", "not_writable",
                  "write_raise", "read_raise"}

update_exposure(w, o) ==
    IF w.app.camera = "None" THEN w
    ELSE
    LET w1 == Issue(w, "GetNodeMap", "", 0) IN
    IF w.cam.state # "open"
    THEN show_error(w1, "Error updating exposure")
    ELSE
    LET w2 == IF o = "auto_skip" THEN w1
              ELSE Issue(w1, "SetIntValue", "ExposureAuto", 0)
    IN
    IF o = "auto_raise" THEN show_error(w2, "Error updating exposure")
    ELSE
    LET w3 == IF o = "auto_skip" THEN w2
              ELSE [w2 EXCEPT !.cam.exposureAuto = "Off"]
    IN
    IF o = "not_writable" THEN show_error(w3, "Exposure setting is not writable.")
    ELSE
    LET slider_value == ToFloat(w.app.exposure_slider.value)
        w4 == Issue(w3, "SetValue", "ExposureTime", slider_value)
    IN
    IF \/ o = "write_raise"
       \/ slider_value < DevExposureMin(w.cam.profile, w.cam.framerate)
       \/ slider_value > DevExposureMax(w.cam.profile, w.cam.framerate)
    THEN show_error(w4, "Error updating exposure")
    ELSE
    LET w5 == Issue([w4 EXCEPT !.cam.exposure = slider_value],
                    "GetValue", "ExposureTime", 0)
    IN
    IF o = "read_raise" THEN show_error(w5, "Error updating exposure")
    ELSE [w5 EXCEPT !.app.exposure_label =
                        Label("Exposure", ExposureText(slider_value))]

update_gain(w, o) ==
    IF w.app.camera = "None" THEN w
    ELSE
    LET w1 == Issue(w, "GetNodeMap", "", 0) IN
    IF w.cam.state # "open"
    THEN show_error(w1, "Error updating gain")
    ELSE
    LET w2 == IF o = "auto_skip" THEN w1
              ELSE Issue(w1, "SetIntValue", "GainAuto", 0)
    IN
    IF o = "auto_raise" THEN show_error(w2, "Error updating gain")
    ELSE
    LET w3 == IF o = "auto_skip" THEN w2
              ELSE [w2 EXCEPT !.cam.gainAuto = "Off"]
    IN
    IF o = "not_writable" THEN show_error(w3, "Gain setting is not writable.")
    ELSE
    LET slider_value == ToFloat(w.app.gain_slider.value)
        w4 == Issue(w3, "SetValue", "Gain", slider_value)
    IN
    IF \/ o = "write_raise"
       \/ slider_value < DevGainMin(w.cam.profile)
       \/ slider_value > DevGainMax(w.cam.profile)
    THEN show_error(w4, "Error updating gain")
    ELSE
    LET w5 == Issue([w4 EXCEPT !.cam.gain = slider_value], "GetValue", "Gain", 0)
    IN
    IF o = "read_raise" THEN show_error(w5, "Error updating gain")
    ELSE [w5 EXCEPT !.app.gain_label = Label("Gain", GainText(slider_value))]

FramerateOutcomes == {"ok", "auto_skip", "auto_raise", "not_writable",
                      "write_raise"}

set_camera_framerate(w, framerate, o) ==
    IF w.app.camera = "None"
    THEN show_error(w, "Error setting frame rate")
    ELSE
    LET w1 == Issue(w, "GetNodeMap", "", 0) IN
    IF w.cam.state # "open"
    THEN show_error(w1, "Error setting frame rate")
    ELSE
    LET w2 == IF o = "auto_skip" THEN w1
              ELSE Issue(w1, "SetIntValue", "AcquisitionFrameRateAuto", 0)
    IN
    IF o = "auto_raise" THEN show_error(w2, "Error setting frame rate")
    ELSE
    LET w3 == IF o = "auto_skip" THEN w2
              ELSE [w2 EXCEPT !.cam.framerateAuto = "Off"]
    IN
    IF o = "not_writable"
    THEN show_error(w3, "Frame rate setting is not writable or not available.")
    ELSE
    LET w4 == Issue(w3, "SetValue", "AcquisitionFrameRate", ToFloat(framerate)) IN
    IF o = "write_raise" THEN show_error(w4, "Error setting frame rate")
    ELSE [w4 EXCEPT !.cam.framerate = framerate]

\* exposure_slider.setRange(...) with valueChanged connected to update_exposure:
\* the slot runs when the re-bounded value differs from the old one.
ExposureSetRange(w, mn, mx, eo) ==
    LET s  == SliderSetRange(w.app.exposure_slider, mn, mx)
        w1 == [w EXCEPT !.app.exposure_slider = s]
    IN  IF s.value # w.app.exposure_slider.value THEN update_exposure(w1, eo) ELSE w1

update_framerate(w, fo, co, eo) ==
    LET framerate == w.app.framerate_combo.text
        w1 == set_camera_framerate(w, framerate, fo)
        w2 == cache_exposure_range(w1, co)
    IN  IF w2.exc THEN w2
        ELSE
        LET w3 == ExposureSetRange(w2, PyInt(w2.app.min_exposure),
                                   PyInt(w2.app.max_exposure), eo)
        IN  [w3 EXCEPT !.app.framerate_label = Label("Framerate", framerate)]

\* ------------------------------------------------------------- export
NoPixmap == 0

NoPayload == [image |-> NoPixmap, rotated |-> FALSE, text |-> << >>]

Payload(w, rotated) ==
    [image |-> w.app.pixmap, rotated |-> rotated,
     text |-> << w.app.gain_label, w.app.exposure_label >>]

\* Mutant: the guard on a missing pixmap is dropped.
copy_to_clipboard_NoCheck(w) == [w EXCEPT !.clip = Payload(w, FALSE)]

\* Mutant: the export takes the pixmap out of image_label.
copy_to_clipboard_TakesImage(w) ==
    IF w.app.pixmap = NoPixmap THEN show_error(w, "No image to copy.")
    ELSE [w EXCEPT !.clip = Payload(w, FALSE), !.app.pixmap = NoPixmap]

copy_to_clipboard(w) ==
    IF w.app.pixmap = NoPixmap THEN show_error(w, "No image to copy.")
    ELSE [w EXCEPT !.clip = Payload(w, FALSE)]

rotate_and_copy_to_clipboard(w) ==
    IF w.app.pixmap = NoPixmap THEN show_error(w, "No image to copy.")
    ELSE [w EXCEPT !.clip = Payload(w, TRUE)]

\* -------------------------------------------------------- construction
\* init_ui: the sliders take the cached ranges (as ints) and their start
\* values before valueChanged is connected, so no slot runs here.
init_ui(w) ==
    [w EXCEPT
       !.app.exposure_slider =
           SliderSetValue(SliderSetRange(NewSlider, PyInt(w.app.min_exposure),
                                         PyInt(w.app.max_exposure)),
                          InitialExposureSlider),
       !.app.gain_slider =
           SliderSetValue(SliderSetRange(NewSlider, PyInt(w.app.min_gain),
                                         PyInt(w.app.max_gain)),
                          InitialGainSlider),
       !.app.exposure_label = Label("literal", 1),
       !.app.gain_label = Label("literal", 10),
       !.app.framerate_label = Label("literal", 10),
       !.app.framerate_combo = [text |-> 10, enabled |-> TRUE],
       !.app.buttons_enabled = TRUE]

\* Mutant: the controls are left enabled.
disable_controls_Noop(w) == w

disable_controls(w) ==
    [w EXCEPT !.app.exposure_slider.enabled = FALSE,
              !.app.gain_slider.enabled = FALSE,
              !.app.framerate_combo.enabled = FALSE,
              !.app.buttons_enabled = FALSE]

\* The except clause of the constructor: the error is printed, not shown.
InitFailed(w) == [w EXCEPT !.app.has_camera = FALSE, !.exc = FALSE]

\* Lines 41-51: open the first camera, set 10 Hz, cache the ranges.
InitOutcomes == {"ok", "init_raise"}

TryInitCamera(w, io, fo, ce, cg) ==
    IF ~w.cam.present THEN w
    ELSE
    LET w1 == Issue([w EXCEPT !.app.camera = "cam0"], "Init", "", 0) IN
    IF io = "init_raise" THEN InitFailed(w1)
    ELSE
    LET w2 == set_camera_framerate([w1 EXCEPT !.cam.state = "open"],
                                   StartupFramerate, fo)
        w3 == cache_exposure_range([w2 EXCEPT !.app.has_camera = TRUE], ce)
    IN
    IF w3.exc THEN InitFailed(w3)
    ELSE
    LET w4 == cache_gain_range(w3, cg) IN
    IF w4.exc THEN InitFailed(w4) ELSE w4

\* Mutant: the preview is started whether or not a camera is available.
StartsPreview_Always(w) == TRUE

\* Line 87: the preview is started only if a camera is available.
StartsPreview(w) == w.app.has_camera

InitialApp ==
    [has_camera |-> FALSE, camera |-> "None",
     min_exposure |-> ToFloat(DefaultMinExposure),
     max_exposure |-> ToFloat(DefaultMaxExposure),
     min_gain |-> ToFloat(DefaultMinGain),
     max_gain |-> ToFloat(DefaultMaxGain),
     preview_active |-> FALSE,
     exposure_slider |-> NewSlider, gain_slider |-> NewSlider,
     framerate_combo |-> [text |-> 10, enabled |-> TRUE],
     buttons_enabled |-> TRUE,
     exposure_label |-> Label("literal", 1),
     gain_label |-> Label("literal", 10),
     framerate_label |-> Label("literal", 10),
     pixmap |-> NoPixmap]

\* The camera before the program starts: not initialised, its automatic
\* modes on, at the frame rate it was left at (1 Hz).
InitialCam(present, profile) ==
    [present |-> present, profile |-> profile, state |-> "closed",
     framerate |-> 1, exposure |-> DevExposureMin(profile, 1),
     gain |-> DevGainMin(profile),
     exposureAuto |-> "Continuous", gainAuto |-> "Continuous",
     framerateAuto |-> "Continuous", streaming |-> FALSE]

NoIntent == [kind |-> "none", arg |-> 0, delivered |-> FALSE]

Intent(kind, arg, delivered) == [kind |-> kind, arg |-> arg, delivered |-> delivered]

Init ==
    /\ app = InitialApp
    /\ cam \in {InitialCam(TRUE, p) : p \in Profiles} \cup {InitialCam(FALSE, 1)}
    /\ sys = [cleared |-> FALSE, released |-> FALSE]
    /\ gui = "new"
    /\ th = "none"
    /\ image = 0
    /\ pulls = 0
    /\ completes = 0
    /\ incompletes = 0
    /\ unreleased = 0
    /\ published = 0
    /\ preview_errors = 0
    /\ thread_starts = 0
    /\ clipboard = NoPayload
    /\ intent = NoIntent
    /\ intents = 0
    /\ faults = 0
    /\ trace = << >>
    /\ msgs = << >>
    /\ closeLog = << >>

\* The outcomes os (a tuple) the device shows in one handler: each outcome
\* other than "ok" is one deviation.
Cost(os) == Cardinality({i \in DOMAIN os : os[i] # "ok"})

Device(os) ==
    /\ faults + Cost(os) <= MaxFaults
    /\ faults' = faults + Cost(os)

\* The handler's result becomes the state; the GUI thread goes to `next`.
Commit(w, next) ==
    /\ app' = w.app
    /\ cam' = w.cam
    /\ clipboard' = w.clip
    /\ trace' = w.trace
    /\ msgs' = w.msgs
    /\ gui' = next

\* An exception that leaves a slot or an event handler is unhandled: PyQt5
\* ends the process (qFatal), the preview thread with it.
AfterHandler(w) == IF w.exc THEN "aborted" ELSE "idle"

\* CameraApp.__init__ up to preview_thread.start() / disable_controls().
CameraAppInit ==
    /\ gui = "new"
    /\ \E io \in InitOutcomes, fo \in FramerateOutcomes, ce \in CacheOutcomes,
          cg \in CacheOutcomes :
         LET w == init_ui(TryInitCamera(World, io, fo, ce, cg)) IN
         /\ Device(<< io, fo, ce, cg >>)
         /\ IF StartsPreview(w)
            THEN /\ Commit([w EXCEPT !.app.preview_active = TRUE], "init_exposure")
                 /\ th' = "started"
                 /\ thread_starts' = thread_starts + 1
            ELSE /\ Commit(disable_controls(w), "idle")
                 /\ UNCHANGED << th, thread_starts >>
    /\ UNCHANGED << sys, image, pulls, completes, incompletes, unreleased,
                    published, preview_errors, intent, intents, closeLog >>

\* Lines 91-92: the constructor applies the sliders' start values.
InitUpdateExposure ==
    /\ gui = "init_exposure"
    /\ \E o \in ApplyOutcomes :
         /\ Device(<< o >>)
         /\ Commit(update_exposure(World, o), "init_gain")
    /\ UNCHANGED << sys, threadVars, thread_starts, intent, intents, closeLog >>

InitUpdateGain ==
    /\ gui = "init_gain"
    /\ \E o \in ApplyOutcomes :
         /\ Device(<< o >>)
         /\ Commit(update_gain(World, o), "idle")
    /\ UNCHANGED << sys, threadVars, thread_starts, intent, intents, closeLog >>

\* ------------------------------------------------------- user intents
\* Qt delivers user input only to an enabled widget; valueChanged and
\* currentIndexChanged are emitted only when the value really changes.

UserIntent(kind, arg, delivered) ==
    /\ intents < MaxIntents
    /\ intents' = intents + 1
    /\ intent' = Intent(kind, arg, delivered)

\* The user moves the exposure slider: valueChanged -> update_exposure.
ExposureSliderMoved ==
    /\ gui = "idle"
    /\ \E v \in ExposureRequests, o \in ApplyOutcomes :
         LET s == SliderSetValue(app.exposure_slider, v)
             deliver == app.exposure_slider.enabled /\ s.value # app.exposure_slider.value
             w == [World EXCEPT !.app.exposure_slider = s]
         IN  /\ Device(<< o >>)
             /\ Commit(IF deliver THEN update_exposure(w, o) ELSE World, "idle")
             /\ UserIntent("exposure", v, deliver)
    /\ UNCHANGED << sys, threadVars, thread_starts, closeLog >>

\* The user moves the gain slider: valueChanged -> update_gain.
GainSliderMoved ==
    /\ gui = "idle"
    /\ \E v \in GainRequests, o \in ApplyOutcomes :
         LET s == SliderSetValue(app.gain_slider, v)
             deliver == app.gain_slider.enabled /\ s.value # app.gain_slider.value
             w == [World EXCEPT !.app.gain_slider = s]
         IN  /\ Device(<< o >>)
             /\ Commit(IF deliver THEN update_gain(w, o) ELSE World, "idle")
             /\ UserIntent("gain", v, deliver)
    /\ UNCHANGED << sys, threadVars, thread_starts, closeLog >>

\* The user picks another frame rate: currentIndexChanged -> update_framerate.
FramerateChosen ==
    /\ gui = "idle"
    /\ \E f \in Framerates \ {app.framerate_combo.text},
          fo \in FramerateOutcomes, co \in CacheOutcomes, eo \in ApplyOutcomes :
         LET deliver == app.framerate_combo.enabled
             w == [World EXCEPT !.app.framerate_combo.text = f]
             r == IF deliver THEN update_framerate(w, fo, co, eo) ELSE World
         IN  /\ Device(<< fo, co, eo >>)
             /\ Commit(r, AfterHandler(r))
             /\ UserIntent("framerate", f, deliver)
    /\ UNCHANGED << sys, threadVars, thread_starts, closeLog >>

\* The user clicks "To Clipboard".
CopyClicked ==
    /\ gui = "idle"
    /\ LET deliver == app.buttons_enabled IN
         /\ Commit(IF deliver THEN copy_to_clipboard(World) ELSE World, "idle")
         /\ UserIntent("copy", 0, deliver)
    /\ UNCHANGED << sys, threadVars, thread_starts, faults, closeLog >>

\* The user clicks "Rotate -> To Clipboard".
RotateCopyClicked ==
    /\ gui = "idle"
    /\ LET deliver == app.buttons_enabled IN
         /\ Commit(IF deliver THEN rotate_and_copy_to_clipboard(World) ELSE World,
                   "idle")
         /\ UserIntent("rotate", 0, deliver)
    /\ UNCHANGED << sys, threadVars, thread_starts, faults, closeLog >>

\* ------------------------------------------------- the preview thread
ProcessAlive == gui # "aborted"

ThreadAlive == th \in {"started", "loop", "pulling", "got"}

\* Mutant: the except clause swallows the exception.
PreviewFailed_Silent ==
    /\ th' = "done"
    /\ UNCHANGED preview_errors

\* show_error called from the except clause of start_preview.
PreviewFailed ==
    /\ th' = "done"
    /\ preview_errors' = preview_errors + 1

\* Lines 201-202: GetNodeMap and BeginAcquisition.
ThreadBegin ==
    /\ ProcessAlive
    /\ th = "started"
    /\ \E ok \in BOOLEAN :
         IF ok /\ cam.state = "open"
         THEN /\ cam' = [cam EXCEPT !.streaming = TRUE]
              /\ th' = "loop"
              /\ UNCHANGED preview_errors
         ELSE /\ PreviewFailed
              /\ UNCHANGED cam
    /\ UNCHANGED << app, sys, gui, image, pulls, completes, incompletes,
                    unreleased, published, thread_starts, clipboard, intent,
                    intents, faults, trace, msgs, closeLog >>

\* Line 203-204: the loop test, then the blocking GetNextImage is issued.
ThreadLoop ==
    /\ ProcessAlive
    /\ th = "loop"
    /\ IF app.preview_active
       THEN /\ pulls < MaxPulls
            /\ th' = "pulling"
            /\ pulls' = pulls + 1
       ELSE /\ th' = "done"
            /\ UNCHANGED pulls
    /\ UNCHANGED << app, cam, sys, gui, image, completes, incompletes,
                    unreleased, published, preview_errors, thread_starts,
                    clipboard, intent, intents, faults, trace, msgs, closeLog >>

\* Mutant: IsIncomplete() is not tested, an incomplete frame is processed.
PullResult_NoIncompleteCheck(r) ==
    CASE r = "error" ->
           /\ PreviewFailed
           /\ UNCHANGED << image, completes, incompletes, unreleased >>
      [] r = "incomplete" ->
           /\ th' = "got"
           /\ image' = pulls
           /\ incompletes' = incompletes + 1
           /\ unreleased' = unreleased + 1
           /\ UNCHANGED << completes, preview_errors >>
      [] r = "complete" ->
           /\ th' = "got"
           /\ image' = pulls
           /\ completes' = completes + 1
           /\ unreleased' = unreleased + 1
           /\ UNCHANGED << incompletes, preview_errors >>

\* The result of one returned pull: lines 204-206.
PullResult(r) ==
    CASE r = "error" ->
           /\ PreviewFailed
           /\ UNCHANGED << image, completes, incompletes, unreleased >>
      [] r = "incomplete" ->
           /\ th' = "loop"
           /\ incompletes' = incompletes + 1
           /\ unreleased' = unreleased + 1
           /\ UNCHANGED << image, completes, preview_errors >>
      [] r = "complete" ->
           /\ th' = "got"
           /\ image' = pulls
           /\ completes' = completes + 1
           /\ unreleased' = unreleased + 1
           /\ UNCHANGED << incompletes, preview_errors >>

\* GetNextImage returns: a device error, an incomplete or a complete frame.
ThreadPullReturns ==
    /\ ProcessAlive
    /\ th = "pulling"
    /\ \E r \in {"error", "incomplete", "complete"} : PullResult(r)
    /\ UNCHANGED << app, cam, sys, gui, pulls, published, thread_starts,
                    clipboard, intent, intents, faults, trace, msgs, closeLog >>

\* Lines 207-220: GetNDArray, Release, conversion, image_label.setPixmap.
ThreadPublish ==
    /\ ProcessAlive
    /\ th = "got"
    /\ \E r \in {"ok", "ndarray_raise", "convert_raise"} :
         CASE r = "ndarray_raise" ->
                /\ PreviewFailed
                /\ UNCHANGED << app, unreleased, published >>
           [] r = "convert_raise" ->
                /\ PreviewFailed
                /\ unreleased' = unreleased - 1
                /\ UNCHANGED << app, published >>
           [] r = "ok" ->
                /\ th' = "loop"
                /\ unreleased' = unreleased - 1
                /\ app' = [app EXCEPT !.pixmap = image]
                /\ published' = published + 1
                /\ UNCHANGED preview_errors
    /\ UNCHANGED << cam, sys, gui, image, pulls, completes, incompletes,
                    thread_starts, clipboard, intent, intents, faults, trace, msgs, closeLog >>

\* ----------------------------------------------------------- closeEvent
Logged(step) == closeLog' = Append(closeLog, step)

\* Mutant: closeEvent goes on to EndAcquisition without joining the thread.
CloseEvent_SkipJoin ==
    /\ gui = "idle"
    /\ intent' = Intent("close", 0, TRUE)
    /\ trace' = << >>
    /\ msgs' = << >>
    /\ IF app.has_camera
       THEN /\ app' = [app EXCEPT !.preview_active = FALSE]
            /\ Logged("stop")
            /\ gui' = "close_end"
       ELSE /\ gui' = "close_clear"
            /\ UNCHANGED << app, closeLog >>
    /\ UNCHANGED << cam, sys, threadVars, thread_starts, clipboard, intents,
                    faults >>

\* Lines 449-452: the user closes the window; with a camera, the loop is
\* told to stop.  closeEvent is the handler now running on the GUI thread.
CloseEvent ==
    /\ gui = "idle"
    /\ intent' = Intent("close", 0, TRUE)
    /\ trace' = << >>
    /\ msgs' = << >>
    /\ IF app.has_camera
       THEN /\ app' = [app EXCEPT !.preview_active = FALSE]
            /\ Logged("stop")
            /\ gui' = "close_join"
       ELSE /\ gui' = "close_clear"
            /\ UNCHANGED << app, closeLog >>
    /\ UNCHANGED << cam, sys, threadVars, thread_starts, clipboard, intents,
                    faults >>

\* Mutant: closeEvent does not wait for the preview thread.
CloseJoin_NoWait ==
    /\ gui = "close_join"
    /\ Logged("join")
    /\ gui' = "close_end"
    /\ UNCHANGED << app, cam, sys, threadVars, thread_starts, clipboard, intent,
                    intents, faults, trace, msgs >>

\* Mutant: after the join the session is closed before the acquisition is ended.
CloseJoin_ThenDeInit ==
    /\ gui = "close_join"
    /\ ~ThreadAlive
    /\ Logged("join")
    /\ gui' = "close_deinit"
    /\ UNCHANGED << app, cam, sys, threadVars, thread_starts, clipboard, intent,
                    intents, faults, trace, msgs >>

\* Lines 453-454: join() returns once the preview thread has ended (it is
\* skipped when the thread is not alive).
CloseJoin ==
    /\ gui = "close_join"
    /\ ~ThreadAlive
    /\ Logged("join")
    /\ gui' = "close_end"
    /\ UNCHANGED << app, cam, sys, threadVars, thread_starts, clipboard, intent,
                    intents, faults, trace, msgs >>

\* Line 455: EndAcquisition raises when the camera is not streaming; the
\* exception leaves closeEvent.
CloseEndAcquisition ==
    /\ gui = "close_end"
    /\ Logged("EndAcquisition")
    /\ IF cam.state = "open" /\ cam.streaming
       THEN /\ cam' = [cam EXCEPT !.streaming = FALSE]
            /\ gui' = "close_deinit"
       ELSE /\ gui' = "aborted"
            /\ UNCHANGED cam
    /\ UNCHANGED << app, sys, threadVars, thread_starts, clipboard, intent,
                    intents, faults, trace, msgs >>

\* Line 456.
CloseDeInit ==
    /\ gui = "close_deinit"
    /\ Logged("DeInit")
    /\ cam' = [cam EXCEPT !.state = "deinit"]
    /\ gui' = "close_clear"
    /\ UNCHANGED << app, sys, threadVars, thread_starts, clipboard, intent,
                    intents, faults, trace, msgs >>

\* Line 457.
CloseClear ==
    /\ gui = "close_clear"
    /\ Logged("Clear")
    /\ sys' = [sys EXCEPT !.cleared = TRUE]
    /\ gui' = "close_release"
    /\ UNCHANGED << app, cam, threadVars, thread_starts, clipboard, intent,
                    intents, faults, trace, msgs >>

\* Lines 458-459.
CloseRelease ==
    /\ gui = "close_release"
    /\ Logged("ReleaseInstance")
    /\ sys' = [sys EXCEPT !.released = TRUE]
    /\ gui' = "closed"
    /\ UNCHANGED << app, cam, threadVars, thread_starts, clipboard, intent,
                    intents, faults, trace, msgs >>

\* -------------------------------------------------------- specification
Next ==
    \/ CameraAppInit
    \/ InitUpdateExposure
    \/ InitUpdateGain
    \/ ExposureSliderMoved
    \/ GainSliderMoved
    \/ FramerateChosen
    \/ CopyClicked
    \/ RotateCopyClicked
    \/ ThreadBegin
    \/ ThreadLoop
    \/ ThreadPullReturns
    \/ ThreadPublish
    \/ CloseEvent
    \/ CloseJoin
    \/ CloseEndAcquisition
    \/ CloseDeInit
    \/ CloseClear
    \/ CloseRelease

Spec == Init /\ [][Next]_vars

\* The threads are scheduled and a blocking call returns: the preview thread
\* takes its next step, GetNextImage returns (a frame, an incomplete frame or
\* an error), and closeEvent, once entered, goes on to its next call.
FairSpec ==
    /\ Spec
    /\ WF_vars(ThreadBegin)
    /\ WF_vars(ThreadLoop)
    /\ WF_vars(ThreadPullReturns)
    /\ WF_vars(ThreadPublish)
    /\ WF_vars(CloseJoin)
    /\ WF_vars(CloseEndAcquisition)
    /\ WF_vars(CloseDeInit)
    /\ WF_vars(CloseClear)
    /\ WF_vars(CloseRelease)

\* ------------------------------------------------- closing a second time
\* How often closeEvent has performed step.
Count(step) == Cardinality({i \in DOMAIN closeLog : closeLog[i] = step})

\* closeEvent is delivered once more after it has run to its end (close()
\* called again on the closed window): the same handler, lines 449-452, on
\* the state the first invocation left.
CloseEventAgain ==
    /\ gui = "closed"
    /\ Count("ReleaseInstance") = 1
    /\ intent' = Intent("close", 0, TRUE)
    /\ trace' = << >>
    /\ msgs' = << >>
    /\ IF app.has_camera
       THEN /\ app' = [app EXCEPT !.preview_active = FALSE]
            /\ Logged("stop")
            /\ gui' = "close_join"
       ELSE /\ gui' = "close_clear"
            /\ UNCHANGED << app, closeLog >>
    /\ UNCHANGED << cam, sys, threadVars, thread_starts, clipboard, intents,
                    faults >>

NextReclose == Next \/ CloseEventAgain

SpecReclose == Init /\ [][NextReclose]_vars

\* ---------------------------------------------------------------- claims
IsPrefix(s, t) == Len(s) <= Len(t) /\ \A i \in 1..Len(s) : s[i] = t[i]

Logs(step) == \E i \in 1..Len(closeLog) : closeLog[i] = step

CloseOrder == << "stop", "join", "EndAcquisition", "DeInit", "Clear",
                 "ReleaseInstance" >>

\* The acquisition loop is Running.
Running == ProcessAlive /\ ThreadAlive

\* Device operations of kind op on node in the last handler's trace.
Ops(op, node) == {i \in 1..Len(trace) : trace[i].op = op /\ trace[i].node = node}

\* C1: with a camera, closeEvent performs stop, join, EndAcquisition, DeInit,
\* Clear, ReleaseInstance in this order: what it has done so far is always a
\* prefix of that sequence, and each step finds the earlier ones' effects.
C1_ShutdownOrder ==
    app.has_camera =>
        /\ IsPrefix(closeLog, CloseOrder)
        /\ Logs("stop") => ~app.preview_active
        /\ Logs("join") => ~ThreadAlive
        /\ Logs("DeInit") => ~cam.streaming
        /\ sys.cleared => cam.state = "deinit"
        /\ sys.released => sys.cleared

\* C1 witness: a shutdown with a camera that ran through all six steps.
C1_Witness == app.has_camera /\ closeLog = CloseOrder /\ gui = "closed"

\* C2: while the preview thread is alive, and in particular while a frame
\* pull is in flight, closeEvent has executed neither EndAcquisition nor
\* DeInit and the device session is open.
C2_NoTeardownUnderPull ==
    ThreadAlive =>
        /\ ~Logs("EndAcquisition")
        /\ ~Logs("DeInit")
        /\ cam.state = "open"
        /\ th \in {"pulling", "got"} => cam.streaming

\* C2 witness: stop was requested while a pull is blocked; closeEvent waits.
C2_Witness == gui = "close_join" /\ th = "pulling" /\ ~app.preview_active

\* A complete frame that was pulled and has not been published.
Unpublished == IF image # app.pixmap THEN 1 ELSE 0

\* C3 (as amended): an incomplete pull publishes nothing, reports no error and
\* leaves the loop running; the images published are the complete frames
\* pulled, less the one whose processing is pending or raised.
C3_IncompleteRetried ==
    /\ [](/\ published = completes - Unpublished
          /\ Unpublished = 1 => \/ th = "got"
                                \/ th = "done" /\ preview_errors = 1)
    /\ [][incompletes' # incompletes =>
            /\ th' = "loop"
            /\ published' = published
            /\ preview_errors' = preview_errors
            /\ app'.pixmap = app.pixmap]_vars

\* C3 witness: an incomplete pull, then a complete one that was published.
C3_Witness == incompletes = 1 /\ published = 1 /\ th = "loop"

\* C3 as stated: whenever the thread is not processing a frame, the images
\* published are as many as the complete frames pulled.
C3_PublishedEqualsComplete ==
    th \in {"loop", "pulling", "done"} => published = completes

\* C4: a value written to ExposureTime / Gain by the handler of a slider
\* request is the request clamped into the cached range of that parameter.
C4_WrittenValueClamped ==
    /\ intent.kind = "exposure" /\ intent.delivered =>
         \A i \in Ops("SetValue", "ExposureTime") :
            trace[i].val = Bound(ToFloat(intent.arg), app.min_exposure,
                                 app.max_exposure)
    /\ intent.kind = "gain" /\ intent.delivered =>
         \A i \in Ops("SetValue", "Gain") :
            trace[i].val = Bound(ToFloat(intent.arg), app.min_gain, app.max_gain)

\* C5: a frame-rate change refreshes the exposure range exactly once, after
\* the frame-rate write, and leaves the exposure setting inside the cached
\* range.
C5_FramerateRefreshesAndReclamps ==
    intent.kind = "framerate" /\ intent.delivered =>
        /\ Cardinality(Ops("IsReadable", "ExposureTime")) = 1
        /\ \A r \in Ops("IsReadable", "ExposureTime") :
              \A f \in Ops("SetValue", "AcquisitionFrameRate") : f < r
        /\ app.min_exposure <= ToFloat(app.exposure_slider.value)
        /\ ToFloat(app.exposure_slider.value) <= app.max_exposure

\* Degraded Mode: the constructor has finished without a usable camera.
Degraded == gui # "new" /\ ~app.has_camera

IsUserIntent == intent.kind # "none"

\* C6 (as amended): in Degraded Mode a user intent reaches no handler: no
\* device operation is issued, no preview thread pulls frames, nothing is
\* handed to the clipboard; an export request is ignored, without a message.
C6_DegradedIntentsIgnored ==
    Degraded =>
        /\ th = "none" /\ pulls = 0
        /\ clipboard = NoPayload
        /\ IsUserIntent /\ intent.kind # "close" =>
              ~intent.delivered /\ trace = << >> /\ msgs = << >>

\* C6 witness: the camera was opened, range caching raised, and the user then
\* moved the exposure slider.
C6_Witness == Degraded /\ cam.state = "open" /\ intent.kind = "exposure"

\* C6 as stated: in Degraded Mode no intent issues a device operation and an
\* export request reports that no image is available.
C6_DegradedExportReports ==
    Degraded /\ IsUserIntent /\ intent.kind # "close" =>
        /\ trace = << >>
        /\ intent.kind \in {"copy", "rotate"} => msgs = << "No image to copy." >>

\* C7: the preview thread is started at most once and only with a usable
\* camera; a Running loop implies an open device session, and in Degraded
\* Mode no thread exists.
C7_LoopOnlyWithOpenDevice ==
    /\ thread_starts <= 1
    /\ th # "none" <=> thread_starts = 1
    /\ thread_starts = 1 => app.has_camera /\ cam.state # "closed"
    /\ Running => cam.state = "open"
    /\ Degraded => th = "none"

\* C7 witness: the loop is Running, a pull in flight.
C7_Witness == Running /\ th = "pulling" /\ cam.state = "open"

\* C8: an export made while nothing has been published shows "No image to
\* copy." and leaves the clipboard empty; a payload on the clipboard comes
\* from a published image.
C8_NoImageNoExport ==
    /\ clipboard # NoPayload => published >= 1 /\ clipboard.image # NoPixmap
    /\ intent.kind \in {"copy", "rotate"} /\ intent.delivered /\ published = 0 =>
         /\ msgs = << "No image to copy." >>
         /\ clipboard = NoPayload

\* C8 witness: the copy button was clicked before any frame was published.
C8_Witness ==
    /\ intent.kind = "copy" /\ intent.delivered
    /\ published = 0
    /\ msgs = << "No image to copy." >>

\* C9: no failure of a parameter intent leaves its handler: the process is
\* never ended by an exception outside closeEvent.
C9_ParameterFailuresContained == ~(gui = "aborted" /\ closeLog = << >>)

\* Pulls that ended with a device error.
PullErrors ==
    pulls - completes - incompletes - (IF th = "pulling" THEN 1 ELSE 0)

\* C10: an error in the preview thread ends the loop and is reported exactly
\* once: a loop that ended without a stop request, a failed pull and a failed
\* conversion each leave exactly one report, and a stopped loop pulls no more.
C10_LoopErrorReportedOnce ==
    /\ [](/\ preview_errors <= 1
          /\ preview_errors = 1 => th = "done"
          /\ th = "done" /\ app.preview_active => preview_errors = 1
          /\ PullErrors \in {0, 1}
          /\ PullErrors = 1 => preview_errors = 1
          /\ th = "done" /\ Unpublished = 1 => preview_errors = 1)
    /\ [][th = "done" => th' = "done" /\ pulls' = pulls /\ published' = published]_vars

\* C10 witness: a pull raised, the loop has stopped with one report.
C10_Witness == th = "done" /\ PullErrors = 1 /\ preview_errors = 1

\* C11: a manual value is written only after the auto-mode of that parameter
\* was switched off in the same apply operation, and the auto-mode is off once
\* the value has been written.
C11_AutoOffBeforeWrite ==
    /\ \A i \in Ops("SetValue", "ExposureTime") :
          /\ \E j \in Ops("SetIntValue", "ExposureAuto") : j < i
          /\ cam.exposureAuto = "Off"
    /\ \A i \in Ops("SetValue", "Gain") :
          /\ \E j \in Ops("SetIntValue", "GainAuto") : j < i
          /\ cam.gainAuto = "Off"
    /\ \A i \in Ops("SetValue", "AcquisitionFrameRate") :
          /\ \E j \in Ops("SetIntValue", "AcquisitionFrameRateAuto") : j < i
          /\ cam.framerateAuto = "Off"

ExposureRange == << app.min_exposure, app.max_exposure >>

GainRange == << app.min_gain, app.max_gain >>

DefaultExposureRange == << ToFloat(DefaultMinExposure), ToFloat(DefaultMaxExposure) >>

DefaultGainRange == << ToFloat(DefaultMinGain), ToFloat(DefaultMaxGain) >>

C13_CachedRangeOrdered ==
    /\ app.min_exposure <= app.max_exposure
    /\ app.min_gain <= app.max_gain

\* C14: image_label's pixmap is written only by the preview thread's publish
\* step, which replaces it with the newest converted frame; an export issues
\* no device operation and leaves the object and the camera as they were.
C14_SingleWriterSlot ==
    /\ [][app'.pixmap # app.pixmap =>
             /\ th = "got" /\ th' = "loop"
             /\ published' = published + 1
             /\ app'.pixmap = image
             /\ app'.pixmap > app.pixmap]_vars
    /\ [](intent.kind \in {"copy", "rotate"} => trace = << >>)
    /\ [][intents' # intents /\ intent'.kind \in {"copy", "rotate"} =>
             app' = app /\ cam' = cam]_vars

\* C14 witness: an image was exported and a newer frame has replaced it in
\* the slot since.
C14_Witness == clipboard # NoPayload /\ app.pixmap # clipboard.image

\* Parameter and auto-mode writes in the last handler's trace.
WriteOps == {i \in 1..Len(trace) : trace[i].op \in {"SetValue", "SetIntValue"}}

\* C15: a frame pull is issued, and is in flight, only on an open session; a
\* handler that issued a parameter write found the session open (the
\* constructor: had opened it) and the session is still open while that
\* handler is the last one.
C15_NoDeviceUseWhenClosed ==
    /\ [](th \in {"pulling", "got"} => cam.state = "open")
    /\ [](WriteOps # {} => cam.state = "open")
    /\ [](cam.state = "closed" => pulls = 0 /\ WriteOps = {})
    /\ [][pulls' # pulls => cam.state = "open" /\ cam'.state = "open"]_vars
    /\ [][trace' # trace /\ WriteOps' # {} =>
             /\ cam'.state = "open"
             /\ cam.state = "open" \/ gui = "new"]_vars

\* C15 witness: after pulls and a user intent the session was closed by DeInit.
C15_Witness ==
    gui = "closed" /\ cam.state = "deinit" /\ pulls >= 1 /\ intents >= 1

\* C16: closing twice, or closing in Degraded Mode, performs each of
\* EndAcquisition, DeInit, Clear and ReleaseInstance at most once, performs
\* EndAcquisition and DeInit only with a usable camera, and no invocation
\* ends in an exception once the window has been closed.
C16_CloseIdempotent ==
    /\ Count("EndAcquisition") <= 1
    /\ Count("DeInit") <= 1
    /\ Count("Clear") <= 1
    /\ Count("ReleaseInstance") <= 1
    /\ Degraded => Count("EndAcquisition") = 0 /\ Count("DeInit") = 0
    /\ ~(gui = "aborted" /\ Count("ReleaseInstance") >= 1)

\* C17: after an apply that was delivered to its handler, the label of that
\* parameter shows the value the device holds, and the frame-rate apply reads
\* the value back.
C17_LabelsShowDeviceValues ==
    /\ intent.kind = "exposure" /\ intent.delivered =>
          app.exposure_label = Label("Exposure", ExposureText(cam.exposure))
    /\ intent.kind = "gain" /\ intent.delivered =>
          app.gain_label = Label("Gain", GainText(cam.gain))
    /\ intent.kind = "framerate" /\ intent.delivered /\ gui # "aborted" =>
          /\ app.framerate_label = Label("Framerate", cam.framerate)
          /\ Ops("GetValue", "AcquisitionFrameRate") # {}

\* C18: once closeEvent has requested the stop, the preview thread ends and
\* closeEvent reaches ReleaseInstance.
C18_ShutdownCompletes ==
    /\ Logs("stop") ~> ~ThreadAlive
    /\ Logs("stop") ~> (gui = "closed" /\ sys.released)

\* C19: at most one image result is held unreleased, and none when the next
\* pull is issued.
C19_ReleasedBeforeNextPull ==
    /\ unreleased <= 1
    /\ th = "pulling" => unreleased = 0

\* C20: when shutdown has completed no session is left open and the system
\* handle is released; no shutdown ends before its last step.
C20_SessionClosedAtShutdown ==
    /\ gui = "closed" => cam.state # "open" /\ sys.released
    /\ ~(gui = "aborted" /\ closeLog # << >>)

\* C21: closeEvent issues EndAcquisition only on a camera that the preview
\* thread has put into acquisition, and a shutdown that has issued it does
\* not end there: the later steps are still reached.
C21_EndOnlyIfBegun ==
    /\ [][~Logs("EndAcquisition") /\ Logs("EndAcquisition")' =>
             cam.streaming]_vars
    /\ [](Logs("EndAcquisition") => gui # "aborted")

====
